---------------------------- MODULE Spec2Model ----------------------------
(***************************************************************************)
(* Timeline engine of PianoTest.py: parse_midi (event stream -> tempo map  *)
(* and note schedule) and the main loop (clock, seeks, rate, note scan,    *)
(* key press/release).                                                     *)
(*                                                                         *)
(* Units.  Times are integers in milliseconds (the source uses float       *)
(* seconds: 2.0 s = 2000, 0.1 s = 100).  SCROLL_SPEED_MULT is in tenths    *)
(* (1.0 = 10, step 0.1 = 1).  Arithmetic is exact; float rounding of the   *)
(* source is not modelled.                                                 *)
(***************************************************************************)
EXTENDS Integers, Sequences, FiniteSets, TLC

VARIABLES
    pc,                \* "load" at start-up, "parse" while parse_midi walks the stream,
                       \* "run" in the main loop, "crashed" after an uncaught exception
    midi_file,         \* sys.argv[1]: "absent", "valid" or "unparseable"
    merged_msgs,       \* parse_midi: the merged message stream
    pos,               \* parse_midi: number of messages consumed by the for loop
    ticks_per_beat,    \* parse_midi: mid.ticks_per_beat
    current_time_sec,  \* parse_midi: running absolute time (ms)
    current_tempo,     \* parse_midi: tempo in force (microseconds per beat)
    active_notes,      \* parse_midi: open notes, pitch -> <<start, velocity>>
    notes_list,        \* global notes_list: sequence of FallingNote records
    tempo_map,         \* global tempo_map: sequence of <<t_sec, bpm>>
    is_pressed,        \* set of pitches whose Key.is_pressed is True
    playback_time,     \* main loop: playback_time (ms)
    SCROLL_SPEED_MULT, \* main loop: rate multiplier (tenths)
    current_bpm,       \* main loop: current_bpm
    ticked,            \* main loop: clock.tick() has been called (a first pass is over)
    log,               \* history: the Key.press / Key.release calls made so far, in order
    mono               \* a second player over the same schedule, advanced without seeks

vars == << pc, midi_file, merged_msgs, pos, ticks_per_beat, current_time_sec, current_tempo,
           active_notes, notes_list, tempo_map, is_pressed, playback_time,
           SCROLL_SPEED_MULT, current_bpm, ticked, log, mono >>

parseVars == << midi_file, merged_msgs, pos, ticks_per_beat, current_time_sec, current_tempo,
                active_notes >>

----------------------------------------------------------------------------
(* Program constants *)

LowKey == 21            \* setup_keys: range(21, 109)
HighKey == 108
MaxStep == 100          \* if dt > 0.1: dt = 0.1
SeekStep == 2000        \* K_LEFT / K_RIGHT: 2.0 s
RateStep == 1           \* K_UP / K_DOWN: 0.1
MinRate == 1            \* max(0.1, ...)
InitRate == 10          \* SCROLL_SPEED_MULT = 1.0
LookAhead == 8000       \* note.start_time > playback_time + 8
LookBehind == 1000      \* note.end_time < playback_time - 1
DefaultTempo == 500000  \* current_tempo = 500000
DefaultBpm == 120       \* current_bpm = 120.0, tempo_map.append((0, 120))
VelocityScale == 127    \* start_v/127.0

(* Bounds of the model *)

MaxTime == 3000         \* the clock is not advanced beyond this time
MaxBack == 1000         \* the clock is not rewound below -MaxBack
MaxRate == 11           \* K_UP is not pressed beyond this rate
MaxEvents == 1          \* key events delivered to one frame
MaxLen == 3             \* messages in a merged stream

----------------------------------------------------------------------------
(* Keys *)

key_map == LowKey .. HighKey

(* FallingNote.__init__ *)
FallingNote(midi, start_sec, end_sec, velocity) ==
    [ midi |-> midi, start_time |-> start_sec, end_time |-> end_sec,
      duration |-> end_sec - start_sec, velocity |-> velocity,
      hit |-> FALSE, playing |-> FALSE ]

(* One call of a Key method, as recorded in log. *)
Signal(kind, midi, idx) == [ sig |-> kind, midi |-> midi, note |-> idx ]

----------------------------------------------------------------------------
(* Main loop: the per-frame note scan *)

(* if note.start_time > playback_time + 8: break *)
BeyondLookAhead(note, t) == note.start_time > t + LookAhead

(* if note.end_time < playback_time - 1: continue *)
BehindByStart(note, t) == note.start_time < t - LookBehind
BehindLookBehind(note, t) == note.end_time < t - LookBehind

(* if not note.hit and playback_time >= note.start_time *)
PressNoHitGuard(note, t) == t >= note.start_time
PressLate(note, t) == ~note.hit /\ t > note.start_time
ShouldPress(note, t) == ~note.hit /\ t >= note.start_time

(* if note.hit and not note.playing and playback_time >= note.end_time *)
ShouldRelease(note, t) == note.hit /\ ~note.playing /\ t >= note.end_time

(* Body of the for loop for one note inside the window.  st is the scan
   state [notes, pressed, log]. *)
ScanNote(st, i, t) ==
    LET note == st.notes[i]
        doPress == ShouldPress(note, t)
        note1 == IF doPress THEN [note EXCEPT !.hit = TRUE] ELSE note
        sigP == doPress /\ note.midi \in key_map
        pressed1 == IF sigP THEN st.pressed \cup {note.midi} ELSE st.pressed
        log1 == IF sigP THEN Append(st.log, Signal("press", note.midi, i)) ELSE st.log
        doRel == ShouldRelease(note1, t)
        note2 == IF doRel THEN [note1 EXCEPT !.playing = TRUE] ELSE note1
        sigR == doRel /\ note.midi \in key_map
        pressed2 == IF sigR THEN pressed1 \ {note.midi} ELSE pressed1
        log2 == IF sigR THEN Append(log1, Signal("release", note.midi, i)) ELSE log1
    IN  [ notes |-> [st.notes EXCEPT ![i] = note2], pressed |-> pressed2, log |-> log2 ]

(* for note in notes_list: ... *)
RECURSIVE ScanFrom(_, _, _)
ScanFrom(st, i, t) ==
    IF i > Len(st.notes) THEN st
    ELSE IF BeyondLookAhead(st.notes[i], t) THEN st
    ELSE IF BehindLookBehind(st.notes[i], t) THEN ScanFrom(st, i + 1, t)
    ELSE ScanFrom(ScanNote(st, i, t), i + 1, t)

ScanNotes(notes, pressed, lg, t) ==
    ScanFrom([ notes |-> notes, pressed |-> pressed, log |-> lg ], 1, t)

----------------------------------------------------------------------------
(* Main loop: clock, events, tempo lookup *)

Min(a, b) == IF a < b THEN a ELSE b
Max(a, b) == IF a > b THEN a ELSE b

(* dt = (clock.get_time() / 1000.0) * SCROLL_SPEED_MULT; if dt > 0.1: dt = 0.1
   wall is clock.get_time() in ms, a multiple of 10 so that the product is
   exact; rate is in tenths.  The clamp follows the multiplication. *)
FrameDt(wall, rate) == Min((wall * rate) \div 10, MaxStep)

Events == { "K_UP", "K_DOWN", "K_LEFT", "K_RIGHT" }

(* One KEYDOWN event applied to cs = [time, rate]. *)
ApplyEventNoFloor(cs, ev) ==
    CASE ev = "K_UP"    -> [cs EXCEPT !.rate = cs.rate + RateStep]
      [] ev = "K_DOWN"  -> [cs EXCEPT !.rate = cs.rate - RateStep]
      [] ev = "K_LEFT"  -> [cs EXCEPT !.time = cs.time - SeekStep]
      [] ev = "K_RIGHT" -> [cs EXCEPT !.time = cs.time + SeekStep]
ApplyEvent(cs, ev) ==
    CASE ev = "K_UP"    -> [cs EXCEPT !.rate = cs.rate + RateStep]
      [] ev = "K_DOWN"  -> [cs EXCEPT !.rate = Max(MinRate, cs.rate - RateStep)]
      [] ev = "K_LEFT"  -> [cs EXCEPT !.time = cs.time - SeekStep]
      [] ev = "K_RIGHT" -> [cs EXCEPT !.time = cs.time + SeekStep]

(* for event in pygame.event.get(): ... *)
RECURSIVE ApplyEvents(_, _)
ApplyEvents(cs, evs) ==
    IF evs = << >> THEN cs
    ELSE ApplyEvents(ApplyEvent(cs, Head(evs)), Tail(evs))

(* for t_sec, t_bpm in reversed(tempo_map):
       if playback_time >= t_sec: current_bpm = t_bpm; break *)
RECURSIVE LookupFrom(_, _, _, _)
LookupFrom(tm, i, t, bpm) ==
    IF i = 0 THEN bpm
    ELSE IF t >= tm[i][1] THEN tm[i][2]
    ELSE LookupFrom(tm, i - 1, t, bpm)

TempoLookup(tm, t, bpm) == LookupFrom(tm, Len(tm), t, bpm)

(* One pass of the while loop, on a player record
   [time, rate, bpm, ticked, notes, pressed, log].  pygame.QUIT, which only
   ends the loop, and the drawing calls are left out. *)
FrameStep(p, wall, evs) ==
    LET cs == ApplyEvents([ time |-> p.time + FrameDt(wall, p.rate), rate |-> p.rate ], evs)
        sc == ScanNotes(p.notes, p.pressed, p.log, cs.time)
    IN  [ time |-> cs.time, rate |-> cs.rate,
          bpm |-> TempoLookup(tempo_map, cs.time, p.bpm), ticked |-> TRUE,
          notes |-> sc.notes, pressed |-> sc.pressed, log |-> sc.log ]

Player == [ time |-> playback_time, rate |-> SCROLL_SPEED_MULT, bpm |-> current_bpm,
            ticked |-> ticked, notes |-> notes_list, pressed |-> is_pressed, log |-> log ]

(* clock.get_time() is 0 until clock.tick() has been called once. *)
WallOk(p, wall) == p.ticked \/ wall = 0

InBounds(p) == p.time <= MaxTime /\ p.time >= 0 - MaxBack /\ p.rate <= MaxRate

(* The main loop's frame with the given wall-clock delta and key events. *)
Frame(wall, evs) ==
    /\ pc = "run"
    /\ WallOk(Player, wall)
    /\ \E q \in { FrameStep(Player, wall, evs) } :
        /\ InBounds(q)
        /\ playback_time' = q.time
        /\ SCROLL_SPEED_MULT' = q.rate
        /\ current_bpm' = q.bpm
        /\ ticked' = q.ticked
        /\ notes_list' = q.notes
        /\ is_pressed' = q.pressed
        /\ log' = q.log
    /\ UNCHANGED << pc, parseVars, tempo_map, mono >>

----------------------------------------------------------------------------
(* A second player, advanced by frames that receive no key events.  It runs
   the same frame code over the same schedule and tempo map. *)

MonoFrame(wall) ==
    /\ pc = "run"
    /\ WallOk(mono, wall)
    /\ \E q \in { FrameStep(mono, wall, << >>) } :
        /\ InBounds(q)
        /\ mono' = q
    /\ UNCHANGED << pc, parseVars, notes_list, tempo_map, is_pressed, playback_time,
                    SCROLL_SPEED_MULT, current_bpm, ticked, log >>

----------------------------------------------------------------------------
(* parse_midi *)

(* mido.tick2second(tick, ticks_per_beat, tempo), in ms *)
Tick2Second(tick, tpb, tempo) == (tick * tempo) \div (tpb * 1000)

(* mido.tempo2bpm(tempo) *)
Tempo2Bpm(tempo) == 60000000 \div tempo

(* start_v/127.0, kept as a fraction *)
Intensity(v) == [ num |-> v, den |-> VelocityScale ]

(* notes_list.sort(key=lambda x: x.start_time): stable *)
RECURSIVE InsertByStart(_, _)
InsertByStart(sorted, n) ==
    IF sorted = << >> THEN << n >>
    ELSE IF sorted[Len(sorted)].start_time <= n.start_time THEN Append(sorted, n)
    ELSE Append(InsertByStart(SubSeq(sorted, 1, Len(sorted) - 1), n), sorted[Len(sorted)])

RECURSIVE SortFrom(_, _, _)
SortFrom(notes, i, acc) ==
    IF i > Len(notes) THEN acc
    ELSE SortFrom(notes, i + 1, InsertByStart(acc, notes[i]))

SortByStart(notes) == SortFrom(notes, 1, << >>)

(* note = FallingNote(msg.note, start_t, current_time_sec, start_v/127.0, k.rect) *)
EmitNoteZeroLength(pitch, entry, now) ==
    FallingNote(pitch, entry[1], entry[1], Intensity(entry[2]))
EmitNote(pitch, entry, now) ==
    FallingNote(pitch, entry[1], now, Intensity(entry[2]))

(* active_notes.pop(p) *)
Pop(open, p) == [ q \in (DOMAIN open) \ {p} |-> open[q] ]

(* active_notes[p] = v *)
PutKeepFirst(open, p, v) ==
    [ q \in (DOMAIN open) \cup {p} |-> IF q \in DOMAIN open THEN open[q] ELSE v ]
Put(open, p, v) == [ q \in (DOMAIN open) \cup {p} |-> IF q = p THEN v ELSE open[q] ]

(* The end of parse_midi: the sort of line 272.  Entries still in
   active_notes are not emitted. *)
FinalNotesFlushOpen(notes, open, now) ==
    LET RECURSIVE Flush(_, _)
        Flush(acc, ps) ==
            IF ps = {} THEN acc
            ELSE LET p == CHOOSE x \in ps : \A y \in ps : x <= y
                 IN  Flush(Append(acc, EmitNote(p, open[p], now)), ps \ {p})
    IN  SortByStart(Flush(notes, DOMAIN open))
FinalNotesUnsorted(notes, open, now) == notes
FinalNotes(notes, open, now) == SortByStart(notes)

(* The tempo that converts msg.time: current_tempo as it is when the message
   is reached, line 256 preceding the update of line 260. *)
DeltaTempoOwn(msg, tempo) == IF msg.type = "set_tempo" THEN msg.tempo ELSE tempo
DeltaTempo(msg, tempo) == tempo

(* One iteration of "for msg in merged_msgs". *)
ParseMsg ==
    /\ pc = "parse"
    /\ pos < Len(merged_msgs)
    /\ LET msg == merged_msgs[pos + 1]
           now == current_time_sec +
                    Tick2Second(msg.time, ticks_per_beat, DeltaTempo(msg, current_tempo))
       IN  /\ current_time_sec' = now
           /\ pos' = pos + 1
           /\ IF msg.type = "set_tempo"
              THEN /\ current_tempo' = msg.tempo
                   /\ tempo_map' = Append(tempo_map, << now, Tempo2Bpm(msg.tempo) >>)
                   /\ UNCHANGED << active_notes, notes_list >>
              ELSE IF msg.type = "note_on" /\ msg.velocity > 0
              THEN /\ active_notes' = Put(active_notes, msg.note, << now, msg.velocity >>)
                   /\ UNCHANGED << current_tempo, tempo_map, notes_list >>
              ELSE IF msg.type = "note_off" \/ (msg.type = "note_on" /\ msg.velocity = 0)
              THEN IF msg.note \in DOMAIN active_notes
                   THEN /\ active_notes' = Pop(active_notes, msg.note)
                        /\ notes_list' =
                             IF msg.note \in key_map
                             THEN Append(notes_list,
                                         EmitNote(msg.note, active_notes[msg.note], now))
                             ELSE notes_list
                        /\ UNCHANGED << current_tempo, tempo_map >>
                   ELSE UNCHANGED << active_notes, notes_list, current_tempo, tempo_map >>
              ELSE UNCHANGED << active_notes, notes_list, current_tempo, tempo_map >>
    /\ UNCHANGED << pc, midi_file, merged_msgs, ticks_per_beat, is_pressed, playback_time,
                    SCROLL_SPEED_MULT, current_bpm, ticked, log, mono >>

(* After the loop: sort, default tempo breakpoint; the main loop then starts. *)
ParseEnd ==
    /\ pc = "parse"
    /\ pos = Len(merged_msgs)
    /\ notes_list' = FinalNotes(notes_list, active_notes, current_time_sec)
    /\ tempo_map' = IF tempo_map = << >> THEN << << 0, DefaultBpm >> >> ELSE tempo_map
    /\ pc' = "run"
    /\ mono' = [mono EXCEPT !.notes = notes_list']
    /\ UNCHANGED << parseVars, is_pressed, playback_time, SCROLL_SPEED_MULT,
                    current_bpm, ticked, log >>

----------------------------------------------------------------------------
(* Start-up: lines 276-285 *)

DemoCount == 50         \* for i in range(50)
DemoStart == 2000       \* dummy_start = 2.0
DemoLength == 500       \* dummy_start+0.5
DemoGap == 200          \* dummy_start += 0.2
DemoBase == 60          \* 60 + (i%12)
DemoVelocity == [ num |-> 8, den |-> 10 ]   \* 0.8

(* The notes the else branch appends, in its order. *)
DemoNotes ==
    [ k \in 1 .. DemoCount |->
        FallingNote(DemoBase + ((k - 1) % 12), DemoStart + (k - 1) * DemoGap,
                    DemoStart + (k - 1) * DemoGap + DemoLength, DemoVelocity) ]

(* if len(sys.argv) > 1 and os.path.exists(sys.argv[1]): parse_midi(...)
   with a file mido can read: parse_midi enters its loop. *)
LoadParse ==
    /\ pc = "load"
    /\ midi_file = "valid"
    /\ pc' = "parse"
    /\ UNCHANGED << parseVars, notes_list, tempo_map, is_pressed, playback_time,
                    SCROLL_SPEED_MULT, current_bpm, ticked, log, mono >>

(* The same branch with a file mido cannot read: mido.MidiFile(filename)
   raises at line 247; no handler encloses the call of line 278. *)
LoadCrash ==
    /\ pc = "load"
    /\ midi_file = "unparseable"
    /\ pc' = "crashed"
    /\ UNCHANGED << parseVars, notes_list, tempo_map, is_pressed, playback_time,
                    SCROLL_SPEED_MULT, current_bpm, ticked, log, mono >>

(* else: the demo notes; tempo_map is not touched. *)
LoadDemo ==
    /\ pc = "load"
    /\ midi_file = "absent"
    /\ notes_list' = DemoNotes
    /\ pc' = "run"
    /\ mono' = [mono EXCEPT !.notes = notes_list']
    /\ UNCHANGED << parseVars, tempo_map, is_pressed, playback_time,
                    SCROLL_SPEED_MULT, current_bpm, ticked, log >>

----------------------------------------------------------------------------
(* Inputs *)

WallDts == { 0, 500, 1000 }        \* clock.get_time() values of the seekable runs
FineWallDts == { 0, 10, 50, 100, 250 }

RECURSIVE SeqsUpTo(_, _)
SeqsUpTo(S, n) ==
    IF n = 0 THEN { << >> }
    ELSE LET shorter == SeqsUpTo(S, n - 1) IN
         shorter \cup { Append(s, x) : s \in { r \in shorter : Len(r) = n - 1 }, x \in S }

EventSeqs == SeqsUpTo(Events, MaxEvents)
SeekSeqs == SeqsUpTo({ "K_LEFT", "K_RIGHT" }, MaxEvents)

(* Schedules as parse_midi leaves them: sorted by start_time. *)
OverlapSchedule ==
    << FallingNote(60, 0, 2000, Intensity(80)), FallingNote(60, 1000, 3000, Intensity(80)) >>
TwoNoteSchedule ==
    << FallingNote(60, 1000, 1500, Intensity(80)), FallingNote(64, 1000, 2000, Intensity(80)) >>
ShortNoteSchedule ==
    << FallingNote(60, 1000, 1500, Intensity(80)) >>
SkipSchedule ==
    << FallingNote(60, 500, 1000, Intensity(80)), FallingNote(64, 2000, 2500, Intensity(80)) >>
FarNoteSchedule ==
    << FallingNote(60, 500, 1000, Intensity(80)), FallingNote(64, 7500, 8000, Intensity(80)) >>

Schedules == { OverlapSchedule, ShortNoteSchedule, SkipSchedule, FarNoteSchedule }
MonoSchedules == { OverlapSchedule, TwoNoteSchedule, ShortNoteSchedule, SkipSchedule }

(* Tempo maps as parse_midi leaves them. *)
TempoMaps ==
    { << <<0, 120>> >>, << <<1000, 240>> >>, << <<0, 120>>, <<1000, 240>> >>,
      << <<500, 60>>, <<1500, 240>> >> }

(* Messages of a merged stream: msg.type, msg.time (delta ticks), msg.note,
   msg.velocity, msg.tempo. *)
Msg(type, time, note, velocity, tempo) ==
    [ type |-> type, time |-> time, note |-> note, velocity |-> velocity, tempo |-> tempo ]

Deltas == { 0, 2 }
MsgKinds ==
    { Msg("note_on", 0, 60, 80, 0), Msg("note_on", 0, 60, 100, 0), Msg("note_on", 0, 60, 0, 0),
      Msg("note_on", 0, 64, 80, 0), Msg("note_on", 0, 64, 0, 0),
      Msg("note_off", 0, 60, 0, 0), Msg("note_off", 0, 64, 0, 0),
      Msg("set_tempo", 0, 0, 0, 250000) }
Msgs == { [m EXCEPT !.time = d] : m \in MsgKinds, d \in Deltas }
Streams == SeqsUpTo(Msgs, MaxLen)
TicksPerBeats == { 1, 2 }

StartPlayer(notes) ==
    [ time |-> 0, rate |-> InitRate, bpm |-> DefaultBpm, ticked |-> FALSE,
      notes |-> notes, pressed |-> {}, log |-> << >> ]

(* The state when the main loop is entered with the given schedule and map. *)
RunInit(scheds, tmaps) ==
    /\ pc = "run"
    /\ midi_file = "valid"
    /\ merged_msgs = << >>
    /\ pos = 0
    /\ ticks_per_beat = 1
    /\ current_time_sec = 0
    /\ current_tempo = DefaultTempo
    /\ active_notes = << >>
    /\ notes_list \in scheds
    /\ tempo_map \in tmaps
    /\ is_pressed = {}
    /\ playback_time = 0
    /\ SCROLL_SPEED_MULT = InitRate
    /\ current_bpm = DefaultBpm
    /\ ticked = FALSE
    /\ log = << >>
    /\ mono = StartPlayer(notes_list)

(* Streams of a whole run: with and without tempo changes, and one whose
   notes end in another order than they start. *)
LifeStreams ==
    { << Msg("note_on", 0, 60, 80, 0), Msg("note_on", 18, 64, 80, 0),
         Msg("note_off", 1, 64, 0, 0), Msg("note_off", 1, 60, 0, 0) >>,
      << Msg("set_tempo", 0, 0, 0, 250000), Msg("note_on", 2, 60, 80, 0),
         Msg("note_off", 2, 60, 0, 0) >>,
      << Msg("note_on", 2, 64, 100, 0), Msg("set_tempo", 2, 0, 0, 250000),
         Msg("note_on", 0, 64, 0, 0) >>,
      << >> }

(* The state before the start-up branch of line 277. *)
LoadInit ==
    /\ pc = "load"
    /\ midi_file \in { "absent", "valid", "unparseable" }
    /\ merged_msgs \in (IF midi_file = "valid" THEN LifeStreams ELSE { << >> })
    /\ pos = 0
    /\ ticks_per_beat = 1
    /\ current_time_sec = 0
    /\ current_tempo = DefaultTempo
    /\ active_notes = << >>
    /\ notes_list = << >>
    /\ tempo_map = << >>
    /\ is_pressed = {}
    /\ playback_time = 0
    /\ SCROLL_SPEED_MULT = InitRate
    /\ current_bpm = DefaultBpm
    /\ ticked = FALSE
    /\ log = << >>
    /\ mono = StartPlayer(<< >>)

(* The state when parse_midi enters its loop. *)
ParseInit ==
    /\ pc = "parse"
    /\ midi_file = "valid"
    /\ merged_msgs \in Streams
    /\ pos = 0
    /\ ticks_per_beat \in TicksPerBeats
    /\ current_time_sec = 0
    /\ current_tempo = DefaultTempo
    /\ active_notes = << >>
    /\ notes_list = << >>
    /\ tempo_map = << >>
    /\ is_pressed = {}
    /\ playback_time = 0
    /\ SCROLL_SPEED_MULT = InitRate
    /\ current_bpm = DefaultBpm
    /\ ticked = FALSE
    /\ log = << >>
    /\ mono = StartPlayer(<< >>)

----------------------------------------------------------------------------
(* Specifications *)

(* The main loop with advances, seeks and rate changes. *)
Init == RunInit(Schedules, { << <<0, DefaultBpm>> >> })
Next == \E wall \in WallDts, evs \in EventSeqs : Frame(wall, evs)
Spec == Init /\ [][Next]_vars

(* Playback at rate 1 with no key events. *)
MonoInit == RunInit(MonoSchedules, { << <<0, DefaultBpm>> >> })
MonoNext == \E wall \in FineWallDts : Frame(wall, << >>)
SpecMono == MonoInit /\ [][MonoNext]_vars

(* Two clock histories over one schedule: one with seeks, one without. *)
ScrubNext ==
    \/ \E wall \in WallDts, evs \in SeekSeqs : Frame(wall, evs)
    \/ \E wall \in WallDts : MonoFrame(wall)
SpecScrub == Init /\ [][ScrubNext]_vars

(* The tempo display under advances and seeks. *)
TempoInit == RunInit({ << >> }, TempoMaps)
TempoNext == \E wall \in WallDts, evs \in SeekSeqs : Frame(wall, evs)
SpecTempo == TempoInit /\ [][TempoNext]_vars

(* A whole run: start-up, then the main loop with advances and seeks. *)
LifeNext ==
    \/ LoadParse
    \/ LoadCrash
    \/ LoadDemo
    \/ ParseMsg
    \/ ParseEnd
    \/ \E wall \in WallDts, evs \in SeekSeqs : Frame(wall, evs)
SpecLife == LoadInit /\ [][LifeNext]_vars

(* The clock under rate changes, without seeks. *)
RateWallDts == { 0, 100, 250 }
RateSeqs == SeqsUpTo({ "K_UP", "K_DOWN" }, MaxEvents)
RateInit == RunInit({ ShortNoteSchedule }, { << <<0, DefaultBpm>> >> })
RateNext == \E wall \in RateWallDts, evs \in RateSeqs : Frame(wall, evs)
SpecRate == RateInit /\ [][RateNext]_vars

(* Advances and forward seeks only. *)
ForwardSeqs == SeqsUpTo({ "K_RIGHT" }, MaxEvents)
ForwardNext == \E wall \in WallDts, evs \in ForwardSeqs : Frame(wall, evs)
SpecForward == Init /\ [][ForwardNext]_vars

(* parse_midi over every bounded stream. *)
BuildNext == ParseMsg \/ ParseEnd
SpecBuild == ParseInit /\ [][BuildNext]_vars

----------------------------------------------------------------------------
(* Vocabulary of the properties *)

(* start <= t < end *)
Sounding(n, t) == n.start_time <= t /\ t < n.end_time

(* The schedule without the per-note flags. *)
Spans(notes) == [ i \in 1 .. Len(notes) |-> << notes[i].midi, notes[i].start_time, notes[i].end_time >> ]

(* Number of calls of the given kind made for note i. *)
Count(lg, kind, i) == Cardinality({ k \in 1 .. Len(lg) : lg[k].sig = kind /\ lg[k].note = i })

(* Number of calls of the given kind made on key midi. *)
KeyCount(lg, kind, midi) == Cardinality({ k \in 1 .. Len(lg) : lg[k].sig = kind /\ lg[k].midi = midi })

(* The note lies fully outside the look-behind / look-ahead window around t. *)
OutsideWindow(n, t) == n.end_time < t - 1000 \/ n.start_time > t + 8000

----------------------------------------------------------------------------
(* C1: after every frame a key is pressed if and only if at least one note
   of its pitch is sounding (start <= clock < end) at the current clock
   time, for any sequence of advances, seeks and rate changes. *)
C1_PressedIffSounding ==
    [][ \A k \in key_map :
          (k \in is_pressed') <=>
          (\E i \in 1 .. Len(notes_list') :
              notes_list'[i].midi = k /\ Sounding(notes_list'[i], playback_time')) ]_vars

(* C2: with notes [0,2) and [1,3) on pitch 60 played without seeks, key 60
   stays pressed from the first frame until the clock reaches 3.0 s, and the
   release of key 60 is signalled exactly once, in the frame that reaches
   3.0 s. *)
C2_OverlapRelease ==
    Spans(notes_list) = Spans(OverlapSchedule) =>
        /\ KeyCount(log, "release", 60) > 0 => playback_time >= 3000
        /\ KeyCount(log, "release", 60) <= 1
        /\ (ticked /\ playback_time < 3000) => 60 \in is_pressed

(* C3: two clock histories from time 0 over one schedule, one with seeks
   and one with advances only, that end at the same clock time leave every
   key in the same pressed state. *)
C3_ScrubIndependent ==
    (ticked /\ mono.ticked /\ mono.time = playback_time) => mono.pressed = is_pressed

(* C4: when a note has been pressed and released and a backward seek brings
   the clock back into [start, end), the press of that note is signalled
   again in that frame. *)
C4_ReplayOnRewind ==
    [][ \A i \in 1 .. Len(notes_list) :
          ( /\ notes_list[i].hit /\ notes_list[i].playing
            /\ playback_time >= notes_list[i].end_time
            /\ playback_time' < playback_time
            /\ Sounding(notes_list[i], playback_time') )
          => Count(log', "press", i) = Count(log, "press", i) + 1 ]_vars

(* C5: when a note is pending (clock < start, press not fired) and the next
   frame's clock is at or past its end, that frame signals neither a press
   nor a release for the note and leaves its flags and its key untouched. *)
C5_SkipOver ==
    [][ \A i \in 1 .. Len(notes_list) :
          ( /\ ~notes_list[i].hit
            /\ playback_time < notes_list[i].start_time
            /\ playback_time' >= notes_list[i].end_time )
          => /\ Count(log', "press", i) = Count(log, "press", i)
             /\ Count(log', "release", i) = Count(log, "release", i)
             /\ (notes_list[i].midi \in is_pressed') = (notes_list[i].midi \in is_pressed) ]_vars

(* C6: a frame in which a note lies fully outside the window signals nothing
   for it; the press of a note is signalled at most once; and after a frame
   in which the note is inside the window with the clock at or past its
   start, its press has been signalled exactly once. *)
C6_WindowConsistency ==
    [][ \A i \in 1 .. Len(notes_list') :
          LET n == notes_list'[i] IN
          /\ OutsideWindow(n, playback_time') =>
                /\ Count(log', "press", i) = Count(log, "press", i)
                /\ Count(log', "release", i) = Count(log, "release", i)
          /\ Count(log', "press", i) <= 1
          /\ (~OutsideWindow(n, playback_time') /\ playback_time' >= n.start_time) =>
                Count(log', "press", i) = 1 ]_vars

(* A note that was passed over outside the window (a later note was pressed
   first), re-entered the window by a clock move and has fired once. *)
C6_Witness ==
    \E a, b \in 1 .. Len(log) :
        /\ a < b
        /\ log[a].sig = "press" /\ log[b].sig = "press"
        /\ log[b].note < log[a].note
        /\ notes_list[log[b].note].start_time < notes_list[log[a].note].start_time
        /\ ~OutsideWindow(notes_list[log[b].note], playback_time)
        /\ playback_time >= notes_list[log[b].note].start_time
        /\ Count(log, "press", log[b].note) = 1

(* The calls of the two-note schedule, in order. *)
TwoNoteCalls ==
    << Signal("press", 60, 1), Signal("press", 64, 2),
       Signal("release", 60, 1), Signal("release", 64, 2) >>

(* C7: at rate 1 without seeks, after every frame the press of a note has
   been signalled exactly when the clock is at or past its start, and its
   release exactly when the clock is at or past its end, each once; for C4
   [1.0,1.5) and E4 [1.0,2.0) the calls are press(60), press(64) in the frame
   reaching 1.0 s, release(60) at 1.5 s, release(64) at 2.0 s. *)
C7_MonotonicOrder ==
    [][ /\ \A i \in 1 .. Len(notes_list') :
            /\ Count(log', "press", i) =
                 (IF playback_time' >= notes_list'[i].start_time THEN 1 ELSE 0)
            /\ Count(log', "release", i) =
                 (IF playback_time' >= notes_list'[i].end_time THEN 1 ELSE 0)
        /\ Spans(notes_list') = Spans(TwoNoteSchedule) =>
            log' = SubSeq(TwoNoteCalls, 1,
                          IF playback_time' >= 2000 THEN 4
                          ELSE IF playback_time' >= 1500 THEN 3
                          ELSE IF playback_time' >= 1000 THEN 2 ELSE 0) ]_vars

(* The two-note schedule played through, all four calls made. *)
C7_Witness ==
    /\ Spans(notes_list) = Spans(TwoNoteSchedule)
    /\ log = TwoNoteCalls
    /\ playback_time >= 2000

(* The tempo of the last breakpoint at or before t, else of the first. *)
BpmAt(tm, t) ==
    LET ok == { i \in 1 .. Len(tm) : tm[i][1] <= t }
    IN  IF ok = {} THEN tm[1][2]
        ELSE tm[CHOOSE i \in ok : \A j \in ok : j <= i][2]

(* C10: after every frame the reported bpm is the tempo of the last
   breakpoint with time <= clock, or of the first breakpoint when none
   qualifies. *)
C10_TempoLookup ==
    [][ current_bpm' = BpmAt(tempo_map', playback_time') ]_vars

----------------------------------------------------------------------------
(* The stream read declaratively, for the properties of parse_midi *)

IsNoteOn(m) == m.type = "note_on" /\ m.velocity > 0
IsNoteOff(m) == m.type = "note_off" \/ (m.type = "note_on" /\ m.velocity = 0)

(* Tempo in force for the delta of message k: that of the last tempo change
   before k, 500000 when there is none. *)
TempoBefore(msgs, k) ==
    LET ch == { j \in 1 .. k - 1 : msgs[j].type = "set_tempo" }
    IN  IF ch = {} THEN 500000 ELSE msgs[CHOOSE j \in ch : \A l \in ch : l <= j].tempo

(* Absolute time (ms) of message k: the sum of the converted deltas 1..k. *)
RECURSIVE AbsTime(_, _, _)
AbsTime(msgs, tpb, k) ==
    IF k = 0 THEN 0
    ELSE AbsTime(msgs, tpb, k - 1) + (msgs[k].time * TempoBefore(msgs, k)) \div (tpb * 1000)

(* The note-on that is open for the note-off at j: the last note message of
   that pitch before j, when it is a note-on; 0 when there is none. *)
OpenFor(msgs, j) ==
    LET same == { i \in 1 .. j - 1 :
                    msgs[i].note = msgs[j].note /\ (IsNoteOn(msgs[i]) \/ IsNoteOff(msgs[i])) }
    IN  IF same = {} THEN 0
        ELSE LET i == CHOOSE x \in same : \A y \in same : y <= x
             IN  IF IsNoteOn(msgs[i]) THEN i ELSE 0

(* The note-offs among messages 1..k that find an open note-on. *)
MatchedOffs(msgs, k) == { j \in 1 .. k : IsNoteOff(msgs[j]) /\ OpenFor(msgs, j) # 0 }

(* The event the note-off at j must produce. *)
PairEvent(msgs, tpb, j) ==
    [ midi |-> msgs[j].note,
      start_time |-> AbsTime(msgs, tpb, OpenFor(msgs, j)),
      end_time |-> AbsTime(msgs, tpb, j),
      velocity |-> [ num |-> msgs[OpenFor(msgs, j)].velocity, den |-> 127 ] ]

(* An emitted note without its derived and runtime fields. *)
EventOf(n) ==
    [ midi |-> n.midi, start_time |-> n.start_time, end_time |-> n.end_time,
      velocity |-> n.velocity ]

(* How many notes of the list are the event e. *)
Occurrences(notes, e) == Cardinality({ i \in 1 .. Len(notes) : EventOf(notes[i]) = e })

(* note_on(60, v=80) at 0, note_off(60) two beats later; 1.0 s at 120 bpm. *)
ExampleStream == << Msg("note_on", 0, 60, 80, 0), Msg("note_off", 2, 60, 0, 0) >>

(* The emitted notes are exactly the events of the matched note-offs. *)
C8_PairingState ==
    LET offs == MatchedOffs(merged_msgs, pos) IN
    /\ Len(notes_list) = Cardinality(offs)
    /\ \A j \in offs :
          Occurrences(notes_list, PairEvent(merged_msgs, ticks_per_beat, j)) =
          Cardinality({ l \in offs : PairEvent(merged_msgs, ticks_per_beat, l) =
                                     PairEvent(merged_msgs, ticks_per_beat, j) })
    /\ (pc = "run" /\ merged_msgs = ExampleStream /\ ticks_per_beat = 1) =>
          /\ Len(notes_list) = 1
          /\ EventOf(notes_list[1]) =
               [ midi |-> 60, start_time |-> 0, end_time |-> 1000,
                 velocity |-> [ num |-> 80, den |-> 127 ] ]

(* A note-off without an open entry changes neither list nor map. *)
C8_PairingStep ==
    ( /\ pc = "parse" /\ pos < Len(merged_msgs)
      /\ IsNoteOff(merged_msgs[pos + 1])
      /\ OpenFor(merged_msgs, pos + 1) = 0 )
    => (notes_list' = notes_list /\ active_notes' = active_notes)

(* C8: at every point of the build the emitted notes are, one for one, the
   events of the note-offs consumed so far that found an open note-on (start
   = time of that note-on, end = time of the note-off, intensity =
   velocity/127); a note-off with no open entry emits nothing and leaves the
   open-notes map unchanged; [note_on(60,80)@0, note_off(60)@1.0 s] yields
   exactly (60, 0, 1.0 s, 80/127). *)
C8_Pairing == [] C8_PairingState /\ [][C8_PairingStep]_vars

(* The example stream has been built into one note. *)
C8_Witness ==
    /\ pc = "run" /\ merged_msgs = ExampleStream /\ ticks_per_beat = 1
    /\ Len(notes_list) = 1

(* The emitted notes of pitch p. *)
NotesOf(p) == { i \in 1 .. Len(notes_list) : notes_list[i].midi = p }

(* C9: when the stream has ended, a pitch whose note-on is never followed
   by a note-off has no event from that note-on: a pitch with no note-off at
   all has no event, and every pitch has exactly as many events as note-offs
   that found an open note-on. *)
C9_OrphanDrop ==
    pc = "run" =>
        \A p \in DOMAIN active_notes :
            /\ Cardinality(NotesOf(p)) =
               Cardinality({ j \in MatchedOffs(merged_msgs, Len(merged_msgs)) :
                               merged_msgs[j].note = p })
            /\ (\A j \in 1 .. Len(merged_msgs) :
                   ~(IsNoteOff(merged_msgs[j]) /\ merged_msgs[j].note = p))
               => NotesOf(p) = {}

(* The stream has ended with one pitch paired and another left open. *)
C9_Witness ==
    /\ pc = "run"
    /\ notes_list # << >>
    /\ \E p \in DOMAIN active_notes : NotesOf(p) = {}

----------------------------------------------------------------------------
(* Start-up and the build, C11 to C14 *)

(* C11: once start-up has finished the tempo map holds at least one
   breakpoint in every load outcome (file with tempo events, file without,
   no file and the demo notes), a 120 bpm breakpoint at time 0 standing in
   when the input declared none. *)
C11_TempoMapNeverEmpty ==
    pc = "run" =>
        /\ Len(tempo_map) >= 1
        /\ (\A k \in 1 .. Len(merged_msgs) : merged_msgs[k].type # "set_tempo")
              => tempo_map = << <<0, 120>> >>

(* C12: every built note has start < end, for every stream, a note-off with
   zero delta after its note-on included. *)
C12_PositiveDuration ==
    \A i \in 1 .. Len(notes_list) : notes_list[i].start_time < notes_list[i].end_time

(* C13: with a file that exists and cannot be parsed, start-up does not
   crash and ends in the main loop with the demo notes, as with no file. *)
C13_UnparseableFallsBack ==
    (midi_file = "unparseable" /\ pc # "load") =>
        /\ pc = "run"
        /\ Spans(notes_list) = Spans(DemoNotes)

(* C14: each message's absolute time is the previous message's time plus
   delta_ticks * tempo / (ticks_per_beat * 1000000) with the tempo in force
   before that message; a tempo change is itself timed under the prior
   tempo, its breakpoint is recorded at that time, and the new tempo applies
   to the deltas that follow. *)
C14_TickToTime ==
    [][ (pc = "parse" /\ pos < Len(merged_msgs)) =>
          LET k == pos + 1
              msg == merged_msgs[k]
          IN  /\ current_tempo = TempoBefore(merged_msgs, k)
              /\ current_time_sec' =
                   current_time_sec +
                   (msg.time * TempoBefore(merged_msgs, k)) \div (ticks_per_beat * 1000)
              /\ current_time_sec' = AbsTime(merged_msgs, ticks_per_beat, k)
              /\ msg.type = "set_tempo" =>
                   /\ tempo_map' = Append(tempo_map, << current_time_sec', 60000000 \div msg.tempo >>)
                   /\ current_tempo' = msg.tempo
              /\ msg.type # "set_tempo" =>
                   /\ tempo_map' = tempo_map
                   /\ current_tempo' = current_tempo ]_vars

(* A tempo change reached after a non-zero delta and followed by a non-zero
   delta has been parsed. *)
C14_Witness ==
    /\ pc = "run"
    /\ \E k \in 1 .. Len(merged_msgs) - 1 :
          /\ merged_msgs[k].type = "set_tempo"
          /\ merged_msgs[k].time > 0
          /\ merged_msgs[k + 1].time > 0
          /\ tempo_map[1][1] > 0
          /\ current_time_sec > tempo_map[1][1]

----------------------------------------------------------------------------
(* The clock and the rate, C15 and C16 *)

(* C15: every frame advances the clock by exactly min(wall_dt, max_step) *
   rate, the clamp applied to the wall-clock delta before the rate, so that
   at rate r a frame may advance the clock by up to max_step * r. *)
C15_ClampBeforeRate ==
    [][ (playback_time' - playback_time) \in
          { (Min(w, 100) * SCROLL_SPEED_MULT) \div 10 : w \in RateWallDts } ]_vars

(* C16: the rate is at least 0.1, hence positive, after any sequence of
   rate-up and rate-down keys; a frame that changes the rate leaves every
   note's pitch, start and end alone and moves the clock by nothing but the
   frame's own advance. *)
C16_RateFloor ==
    /\ [] (SCROLL_SPEED_MULT >= 1 /\ SCROLL_SPEED_MULT > 0)
    /\ [][ SCROLL_SPEED_MULT' # SCROLL_SPEED_MULT =>
             /\ Spans(notes_list') = Spans(notes_list)
             /\ (playback_time' - playback_time) \in
                  { Min((w * SCROLL_SPEED_MULT) \div 10, 100) : w \in RateWallDts } ]_vars

(* The rate has been brought down to its floor while the clock ran. *)
C16_Witness ==
    /\ SCROLL_SPEED_MULT = 1
    /\ playback_time > 0
    /\ notes_list[1].hit

----------------------------------------------------------------------------
(* Re-strike, C17 *)

(* The note-on at j arrives while an earlier note-on of its pitch is open. *)
Restrike(msgs, j) == IsNoteOn(msgs[j]) /\ OpenFor(msgs, j) # 0

(* C17: a note-on for a pitch that is open replaces the open entry and
   emits nothing; the next note-off of that pitch emits exactly one note,
   with the start and velocity of the latest note-on, and closes the pitch,
   so the earlier note-on never yields a note. *)
C17_Restrike ==
    [][ (pc = "parse" /\ pos < Len(merged_msgs)) =>
          LET k == pos + 1
              msg == merged_msgs[k]
              j == OpenFor(merged_msgs, k)
          IN  /\ Restrike(merged_msgs, k) =>
                   /\ notes_list' = notes_list
                   /\ active_notes'[msg.note] =
                        << AbsTime(merged_msgs, ticks_per_beat, k), msg.velocity >>
              /\ (IsNoteOff(msg) /\ j # 0 /\ Restrike(merged_msgs, j)) =>
                   /\ Len(notes_list') = Len(notes_list) + 1
                   /\ SubSeq(notes_list', 1, Len(notes_list)) = notes_list
                   /\ notes_list'[Len(notes_list')].start_time =
                        AbsTime(merged_msgs, ticks_per_beat, j)
                   /\ notes_list'[Len(notes_list')].velocity =
                        [ num |-> merged_msgs[j].velocity, den |-> 127 ]
                   /\ msg.note \notin DOMAIN active_notes' ]_vars

(* Pitch 60 struck at velocity 80, struck again later at velocity 100, then
   ended: one note, with the second strike's start and velocity. *)
C17_Witness ==
    /\ pc = "run"
    /\ Len(merged_msgs) = 3
    /\ merged_msgs[1] = Msg("note_on", 0, 60, 80, 0)
    /\ merged_msgs[2] = Msg("note_on", 2, 60, 100, 0)
    /\ IsNoteOff(merged_msgs[3]) /\ merged_msgs[3].note = 60
    /\ Len(notes_list) = 1
    /\ notes_list[1].start_time > 0
    /\ notes_list[1].velocity.num = 100

----------------------------------------------------------------------------
(* Order and flags at run time, C18 to C20 *)

(* Ascending by start_time. *)
Sorted(notes) ==
    \A i, j \in 1 .. Len(notes) : i < j => notes[i].start_time <= notes[j].start_time

(* The notes without their runtime flags. *)
Events_(notes) == [ i \in 1 .. Len(notes) |-> EventOf(notes[i]) ]

(* C18: the note list is ascending by start after the build, for a parsed
   file and for the demo notes alike, and in every state of the main loop;
   no frame changes the order or any note's pitch, start or end; and the
   scan's early exit passes over no note that is inside the window, so a
   note inside the window whose start the clock has reached has been
   pressed. *)
C18_SortedSchedule ==
    /\ [] (pc = "run" => Sorted(notes_list))
    /\ [][ pc = "run" =>
             /\ Events_(notes_list') = Events_(notes_list)
             /\ \A i \in 1 .. Len(notes_list') :
                   ( /\ ~OutsideWindow(notes_list'[i], playback_time')
                     /\ playback_time' >= notes_list'[i].start_time )
                   => notes_list'[i].hit ]_vars

(* A parsed file whose notes ended in another order than they start, the
   later one beyond the look-ahead, is in the main loop with its first note
   pressed. *)
C18_Witness ==
    /\ pc = "run"
    /\ midi_file = "valid"
    /\ Len(notes_list) = 2
    /\ notes_list[1].midi = 60 /\ notes_list[2].midi = 64
    /\ notes_list[2].start_time > playback_time + 8000
    /\ notes_list[1].hit

(* Position of the first call of the given kind for note i; 0 when none. *)
FirstCall(lg, kind, i) ==
    LET ks == { k \in 1 .. Len(lg) : lg[k].sig = kind /\ lg[k].note = i }
    IN  IF ks = {} THEN 0 ELSE CHOOSE k \in ks : \A l \in ks : k <= l

(* C19: over any run the calls for one note are a prefix of <press,
   release>: at most one press, at most one release, no release without an
   earlier press; playing implies hit in every state; and neither flag is
   ever reset. *)
C19_PressReleasePrefix ==
    /\ [] (\A i \in 1 .. Len(notes_list) :
              /\ Count(log, "press", i) <= 1
              /\ Count(log, "release", i) <= 1
              /\ Count(log, "release", i) = 1 =>
                    /\ Count(log, "press", i) = 1
                    /\ FirstCall(log, "press", i) < FirstCall(log, "release", i)
              /\ notes_list[i].playing => notes_list[i].hit
              /\ notes_list[i].hit <=> Count(log, "press", i) = 1
              /\ notes_list[i].playing <=> Count(log, "release", i) = 1)
    /\ [][ \A i \in 1 .. Len(notes_list) :
              /\ notes_list[i].hit => notes_list'[i].hit
              /\ notes_list[i].playing => notes_list'[i].playing ]_vars

(* A note pressed and released once, with the clock brought back into its
   span afterwards. *)
C19_Witness ==
    \E i \in 1 .. Len(notes_list) :
        /\ notes_list[i].hit /\ notes_list[i].playing
        /\ Sounding(notes_list[i], playback_time)
        /\ Count(log, "press", i) = 1
        /\ Count(log, "release", i) = 1

(* C20: under advances and forward seeks there is no state in which a note
   has been pressed, the clock is beyond its end plus the look-behind, and
   its release has not fired and can no longer fire, the key left pressed. *)
C20_NoStuckKey ==
    \A i \in 1 .. Len(notes_list) :
        ~ ( /\ notes_list[i].hit
            /\ ~notes_list[i].playing
            /\ notes_list[i].end_time < playback_time - 1000
            /\ notes_list[i].midi \in is_pressed )

=============================================================================
